---------------------------- MODULE Spec2Model ----------------------------
(***************************************************************************)
(* A model of loginus' Journal Export Format parser:                       *)
(*   src/src/shiftbuffer.rs  ShiftBuffer, a sliding window over a growable *)
(*                           backing store, addressed by absolute Pointers *)
(*   src/src/journald.rs     JournalExportParser (the state machine), the  *)
(*                           entry views and the synchronous reader        *)
(*                           JournalExportRead::parse_next                 *)
(*                                                                         *)
(* Bytes are the integers 0..255.  A Pointer is its absolute position (a   *)
(* natural number).  Rust slices are 0-based, TLA+ sequences 1-based: the  *)
(* byte at backing-store index i is buf[i + 1].                            *)
(***************************************************************************)
EXTENDS Integers, Sequences, FiniteSets, TLC

(***************************************************************************)
(* Bytes and their classes (u8::is_ascii_alphabetic / is_ascii_alphanumeric)*)
(***************************************************************************)
NL == 10
EQ == 61
UNDERSCORE == 95

is_ascii_alphabetic(c) == (c >= 65 /\ c <= 90) \/ (c >= 97 /\ c <= 122)

is_ascii_digit(c) == c >= 48 /\ c <= 57

is_ascii_alphanumeric(c) == is_ascii_alphabetic(c) \/ is_ascii_digit(c)

Min(a, b) == IF a <= b THEN a ELSE b

Max(a, b) == IF a >= b THEN a ELSE b

(* n copies of T::default(), which is 0 for u8 *)
Zeros(n) == [i \in 1..n |-> 0]

(***************************************************************************)
(* ShiftBuffer<u8>: [buf, offset, lower, upper]                            *)
(***************************************************************************)
new(init_size) == [buf |-> Zeros(init_size), offset |-> 0, lower |-> 0, upper |-> 0]

relative_pos(sb, p) == p - sb.offset

(* shrink without its assertion *)
shrink_ok_Unchecked(sb, n) == TRUE

(* ShiftBuffer::shrink: assert!(self.lower + n < self.upper) *)
shrink_ok(sb, n) == sb.lower + n < sb.upper

(* ShiftBuffer::shrink: self.lower += n *)
shrink(sb, n) == [sb EXCEPT !.lower = sb.lower + n]

(* ShiftBuffer::extend: the caller has written n bytes into free() *)
SB_extend(sb, n) == [sb EXCEPT !.upper = sb.upper + n]

(* extend without its assertion *)
SB_extend_ok_Unchecked(sb, n) == TRUE

(* the precondition extend asserts *)
SB_extend_ok(sb, n) == relative_pos(sb, sb.upper) + n <= Len(sb.buf)

(* ShiftBuffer::shift: for p in 0..d { buf[p] = buf[p + d] }; offset = lower *)
RECURSIVE ShiftCopy(_, _, _)
ShiftCopy(buf, p, d) ==
    IF p >= d THEN buf
    ELSE ShiftCopy([buf EXCEPT ![p + 1] = buf[p + d + 1]], p + 1, d)

(* the reads buf[p + d], p in 0..d, of shift stay inside the store (an     *)
(* index past its end panics)                                              *)
shift_ok(sb) == 2 * (sb.upper - sb.lower) <= Len(sb.buf)

(* shift that also moves the window to the start of the store's range *)
shift_Rebase(sb) ==
    LET d == sb.upper - sb.lower
    IN  [sb EXCEPT !.buf = ShiftCopy(sb.buf, 0, d), !.lower = sb.offset,
                   !.upper = sb.offset + d]

shift(sb) ==
    LET d == sb.upper - sb.lower
    IN  [sb EXCEPT !.buf = ShiftCopy(sb.buf, 0, d), !.offset = sb.lower]

(* make_room whose doubling replaces the store by a fresh one *)
make_room_Fresh(sb) ==
    IF relative_pos(sb, sb.upper) = Len(sb.buf)
    THEN IF sb.lower = sb.offset
         THEN [sb EXCEPT !.buf = Zeros(2 * Len(sb.buf))]
         ELSE shift(sb)
    ELSE sb

(* ShiftBuffer::make_room, without the slice it returns (see free) *)
make_room(sb) ==
    IF relative_pos(sb, sb.upper) = Len(sb.buf)
    THEN IF sb.lower = sb.offset
         THEN [sb EXCEPT !.buf = sb.buf \o Zeros(Len(sb.buf))]
         ELSE shift(sb)
    ELSE sb

(* make_room returns normally: it does not shift, or its shift does *)
make_room_ok(sb) ==
    (relative_pos(sb, sb.upper) = Len(sb.buf) /\ sb.lower # sb.offset) => shift_ok(sb)

(* ShiftBuffer::free: the length of the slice &mut buf[r..] *)
free(sb) == Len(sb.buf) - relative_pos(sb, sb.upper)

(* write `bytes` at the start of the free slice (what Read::read does) *)
WriteFree(sb, bytes) ==
    LET r == relative_pos(sb, sb.upper)
    IN  [sb EXCEPT !.buf = [i \in 1..Len(sb.buf) |->
                              IF i > r /\ i <= r + Len(bytes) THEN bytes[i - r]
                              ELSE sb.buf[i]]]

(* Index<Pointer>: buf[relative_pos(index)] *)
At(sb, p) == sb.buf[relative_pos(sb, p) + 1]

(* Index<Range<Pointer>>: buf[relative_pos(start)..relative_pos(end)] *)
Slice(sb, s, e) == SubSeq(sb.buf, relative_pos(sb, s) + 1, relative_pos(sb, e))

(* ShiftBuffer::clone_window *)
clone_window(sb) ==
    [buf |-> Slice(sb, sb.lower, sb.upper), offset |-> sb.lower,
     lower |-> sb.lower, upper |-> sb.upper]

(***************************************************************************)
(* JournalExportParser                                                     *)
(*   [buf, entry_start, field_start, cursor, namelen, remaining,           *)
(*    parse_state, buffer_state, field_offsets, limits]                    *)
(* ParserState : "EntryStart" "FieldStart" "Fieldname" "BinaryValueLen"    *)
(*               "BinaryValue" "StringField" "Eof"                         *)
(* BufferState : "Underfilled" "Filled"                                    *)
(* FieldOffset : [start, namelen, typ],  typ \in {"String", "Binary"}      *)
(***************************************************************************)
parser_new(limits, buf_size) ==
    [buf |-> new(buf_size), entry_start |-> 0, field_start |-> 0, cursor |-> 0,
     namelen |-> 0, remaining |-> 0, parse_state |-> "FieldStart",
     buffer_state |-> "Underfilled", field_offsets |-> <<>>, limits |-> limits]

(* JournalExportParser::extend *)
extend(p, n) == [p EXCEPT !.buf = SB_extend(p.buf, n)]

(* clear_entry that clears nothing *)
clear_entry_Keep(p) == p

(* JournalExportParser::clear_entry *)
clear_entry(p) == [p EXCEPT !.field_offsets = <<>>]

(* ParseResult: Ok(()), Err(e), Underfilled(slice), Eof.  An              *)
(* UnexpectedCharacter error carries the byte c; "Continue" stands for a   *)
(* loop iteration that does not return.                                    *)
Res(kind, err, c) == [kind |-> kind, err |-> err, c |-> c]

ResOk == Res("Ok", "None", 0)

ResEof == Res("Eof", "None", 0)

ResUnderfilled == Res("Underfilled", "None", 0)

ResErr(e) == Res("Err", e, 0)

ResUnexpectedCharacter(c) == Res("Err", "UnexpectedCharacter", c)

Continue == Res("Continue", "None", 0)

(* an arm that falls through: self.parse_state = <the arm's value> *)
Goto(p, st) == [p |-> [p EXCEPT !.parse_state = st], ret |-> Continue]

Return(p, r) == [p |-> p, ret |-> r]

(* JournalExportParser::eof_and_return *)
eof_and_return(p, r) == Return([p EXCEPT !.parse_state = "Eof"], r)

(* u64::from_le_bytes.  The model's integers are narrower than u64: the    *)
(* value is exact below 2^20 and 2^20 stands for every larger value (the   *)
(* code only compares it with a limit and uses it once it is within the    *)
(* limit; the limits of the model are far below 2^20).                     *)
RECURSIVE LeFold(_, _)
LeFold(bytes, i) ==
    IF i > Len(bytes) THEN 0
    ELSE Min(bytes[i] + 256 * Min(LeFold(bytes, i + 1), 4096), 1048576)

from_le_bytes(bytes) == LeFold(bytes, 1)

PushField(p, typ) ==
    Append(p.field_offsets, [start |-> p.field_start, namelen |-> p.namelen, typ |-> typ])

(* the arms of the match in parse(); c is the byte at the cursor *)
EntryStartArm(p, c) ==
    IF is_ascii_alphabetic(c) \/ c = UNDERSCORE
    THEN Goto([p EXCEPT !.entry_start = p.cursor, !.field_start = p.cursor,
                        !.cursor = p.cursor + 1], "Fieldname")
    ELSE eof_and_return(p, ResUnexpectedCharacter(c))

(* FieldStart without the check that a field was parsed *)
FieldStartArm_AcceptBlank(p, c) ==
    IF c = NL
    THEN Return([p EXCEPT !.cursor = p.cursor + 1, !.parse_state = "EntryStart"], ResOk)
    ELSE IF is_ascii_alphanumeric(c) \/ c = UNDERSCORE
         THEN Goto([p EXCEPT !.field_start = p.cursor, !.cursor = p.cursor + 1], "Fieldname")
         ELSE eof_and_return(p, ResUnexpectedCharacter(c))

FieldStartArm(p, c) ==
    IF c = NL
    THEN IF p.field_offsets # <<>>
         THEN Return([p EXCEPT !.cursor = p.cursor + 1, !.parse_state = "EntryStart"], ResOk)
         ELSE eof_and_return(p, ResUnexpectedCharacter(c))
    ELSE IF is_ascii_alphanumeric(c) \/ c = UNDERSCORE
         THEN Goto([p EXCEPT !.field_start = p.cursor, !.cursor = p.cursor + 1], "Fieldname")
         ELSE eof_and_return(p, ResUnexpectedCharacter(c))

(* Fieldname with the limit check off by one (>= for >) *)
FieldnameArm_OffByOne(p, c) ==
    LET p1 == [p EXCEPT !.namelen = p.cursor - p.field_start]
    IN  IF p1.namelen >= p1.limits.max_field_name_len
        THEN eof_and_return(p1, ResErr("FieldNameTooLong"))
        ELSE LET p2 == [p1 EXCEPT !.cursor = p1.cursor + 1]
             IN  IF is_ascii_alphanumeric(c) \/ c = UNDERSCORE THEN Goto(p2, "Fieldname")
                 ELSE IF c = EQ THEN Goto(p2, "StringField")
                 ELSE IF c = NL THEN Goto(p2, "BinaryValueLen")
                 ELSE eof_and_return(p1, ResUnexpectedCharacter(c))

(* Fieldname whose error path steps the cursor back without having        *)
(* advanced it                                                             *)
FieldnameArm_Rewind(p, c) ==
    LET p1 == [p EXCEPT !.namelen = p.cursor - p.field_start]
    IN  IF p1.namelen > p1.limits.max_field_name_len
        THEN eof_and_return(p1, ResErr("FieldNameTooLong"))
        ELSE LET p2 == [p1 EXCEPT !.cursor = p1.cursor + 1]
             IN  IF is_ascii_alphanumeric(c) \/ c = UNDERSCORE THEN Goto(p2, "Fieldname")
                 ELSE IF c = EQ THEN Goto(p2, "StringField")
                 ELSE IF c = NL THEN Goto(p2, "BinaryValueLen")
                 ELSE eof_and_return([p1 EXCEPT !.cursor = p1.cursor - 1],
                                     ResUnexpectedCharacter(c))

FieldnameArm(p, c) ==
    LET p1 == [p EXCEPT !.namelen = p.cursor - p.field_start]
    IN  IF p1.namelen > p1.limits.max_field_name_len
        THEN eof_and_return(p1, ResErr("FieldNameTooLong"))
        ELSE LET p2 == [p1 EXCEPT !.cursor = p1.cursor + 1]
             IN  IF is_ascii_alphanumeric(c) \/ c = UNDERSCORE THEN Goto(p2, "Fieldname")
                 ELSE IF c = EQ THEN Goto(p2, "StringField")
                 ELSE IF c = NL THEN Goto(p2, "BinaryValueLen")
                 ELSE eof_and_return(p1, ResUnexpectedCharacter(c))

BinaryValueLenArm(p, c) ==
    LET len_stop == p.field_start + p.namelen + 9
        p1 == [p EXCEPT !.cursor = Min(p.buf.upper, len_stop)]
    IN  IF p1.cursor < len_stop \/ p1.cursor = p1.buf.upper
        THEN Goto(p1, "BinaryValueLen")
        ELSE LET le_bytes == Slice(p1.buf, len_stop - 8, len_stop)
                 p2 == [p1 EXCEPT !.remaining = from_le_bytes(le_bytes)]
             IN  IF p2.remaining > p2.limits.max_field_value_size
                 THEN eof_and_return(p2, ResErr("FieldValueTooLong"))
                 ELSE Goto(p2, "BinaryValue")

(* BinaryValue that takes the first newline for the end of the field *)
BinaryValueArm_ScanNewline(p, c) ==
    LET stop_pos == p.field_start + p.namelen + 9 + p.remaining
    IN  IF c = NL
        THEN Goto([p EXCEPT !.cursor = p.cursor + 1,
                            !.field_offsets = PushField(p, "Binary")], "FieldStart")
        ELSE IF p.cursor < stop_pos
             THEN Goto([p EXCEPT !.cursor = p.cursor + 1], "BinaryValue")
             ELSE eof_and_return(p, ResUnexpectedCharacter(c))

BinaryValueArm(p, c) ==
    LET stop_pos == p.field_start + p.namelen + 9 + p.remaining
    IN  IF p.cursor < stop_pos
        THEN Goto([p EXCEPT !.cursor = Min(p.buf.upper, stop_pos)], "BinaryValue")
        ELSE IF c # NL
             THEN eof_and_return(p, ResUnexpectedCharacter(c))
             ELSE Goto([p EXCEPT !.cursor = p.cursor + 1,
                                 !.field_offsets = PushField(p, "Binary")], "FieldStart")

(* StringField without the value-size check *)
StringFieldArm_NoLimit(p, c) ==
    LET p1 == [p EXCEPT !.cursor = p.cursor + 1]
    IN  IF c = NL
        THEN Goto([p1 EXCEPT !.field_offsets = PushField(p1, "String")], "FieldStart")
        ELSE Goto(p1, "StringField")

(* StringField with the limit check off by one (>= for >) *)
StringFieldArm_OffByOne(p, c) ==
    LET p1 == [p EXCEPT !.cursor = p.cursor + 1]
    IN  IF c = NL
        THEN Goto([p1 EXCEPT !.field_offsets = PushField(p1, "String")], "FieldStart")
        ELSE IF p1.cursor - p1.field_start - p1.namelen - 1 >= p1.limits.max_field_value_size
             THEN eof_and_return(p, ResErr("FieldValueTooLong"))
             ELSE Goto(p1, "StringField")

StringFieldArm(p, c) ==
    LET p1 == [p EXCEPT !.cursor = p.cursor + 1]
    IN  IF c = NL
        THEN Goto([p1 EXCEPT !.field_offsets = PushField(p1, "String")], "FieldStart")
        ELSE IF p1.cursor - p1.field_start - p1.namelen - 1 > p1.limits.max_field_value_size
             THEN eof_and_return(p, ResErr("FieldValueTooLong"))
             ELSE Goto(p1, "StringField")

EofArm(p, c) == Return(p, ResEof)

(* end-of-window handling that reports every end of source as clean *)
EndOfWindow_AlwaysEof(p) ==
    IF p.buffer_state = "Filled"
    THEN Return(p, ResEof)
    ELSE Return([p EXCEPT !.buffer_state = "Filled", !.buf = make_room(p.buf)],
                ResUnderfilled)

(* end-of-window handling that never reports the end: it asks for bytes    *)
(* whatever the buffer state, which it flips                               *)
EndOfWindow_AskAgain(p) ==
    Return([p EXCEPT !.buffer_state = IF p.buffer_state = "Filled" THEN "Underfilled"
                                      ELSE "Filled",
                     !.buf = make_room(p.buf)],
           ResUnderfilled)

(* the end-of-window handling at the top of the loop (cursor == upper) *)
EndOfWindow(p) ==
    IF p.buffer_state = "Filled"
    THEN IF p.parse_state = "EntryStart"
         THEN Return(p, ResEof)
         ELSE Return(p, ResErr("UnexpectedEof"))
    ELSE Return([p EXCEPT !.buffer_state = "Filled", !.buf = make_room(p.buf)],
                ResUnderfilled)

(* ParseIter without `self.buffer_state = BufferState::Underfilled` *)
ParseIter_KeepFilled(p) ==
    IF p.cursor = p.buf.upper
    THEN EndOfWindow(p)
    ELSE LET c == At(p.buf, p.cursor)
         IN  CASE p.parse_state = "EntryStart" -> EntryStartArm(p, c)
               [] p.parse_state = "FieldStart" -> FieldStartArm(p, c)
               [] p.parse_state = "Fieldname" -> FieldnameArm(p, c)
               [] p.parse_state = "BinaryValueLen" -> BinaryValueLenArm(p, c)
               [] p.parse_state = "BinaryValue" -> BinaryValueArm(p, c)
               [] p.parse_state = "StringField" -> StringFieldArm(p, c)
               [] p.parse_state = "Eof" -> EofArm(p, c)

(* one iteration of the loop in parse() *)
ParseIter(p) ==
    IF p.cursor = p.buf.upper
    THEN EndOfWindow(p)
    ELSE LET p1 == [p EXCEPT !.buffer_state = "Underfilled"]
             c == At(p1.buf, p1.cursor)
         IN  CASE p1.parse_state = "EntryStart" -> EntryStartArm(p1, c)
               [] p1.parse_state = "FieldStart" -> FieldStartArm(p1, c)
               [] p1.parse_state = "Fieldname" -> FieldnameArm(p1, c)
               [] p1.parse_state = "BinaryValueLen" -> BinaryValueLenArm(p1, c)
               [] p1.parse_state = "BinaryValue" -> BinaryValueArm(p1, c)
               [] p1.parse_state = "StringField" -> StringFieldArm(p1, c)
               [] p1.parse_state = "Eof" -> EofArm(p1, c)

(* JournalExportParser::parse: loop until an iteration returns *)
RECURSIVE parse(_)
parse(p) ==
    LET it == ParseIter(p)
    IN  IF it.ret.kind = "Continue" THEN parse(it.p) ELSE it

(***************************************************************************)
(* Entry views: RefEntry reads the parser's buf, cursor and field_offsets; *)
(* OwnedEntry is [cursor, buf, offsets].                                   *)
(***************************************************************************)
(* next with the last field's value running up to the blank line *)
next_LastStop(buf, stop, offsets, index) ==
    LET f == offsets[index + 1]
        field_stop == IF index = Len(offsets) - 1
                      THEN stop - 1
                      ELSE offsets[index + 2].start - 1
        bin_offset == IF f.typ = "Binary" THEN 9 ELSE 1
    IN  [name |-> Slice(buf, f.start, f.start + f.namelen),
         value |-> Slice(buf, f.start + f.namelen + bin_offset, field_stop),
         typ |-> f.typ]

(* fn next(buf, stop, offsets, index): the index-th (0-based) field *)
next(buf, stop, offsets, index) ==
    LET f == offsets[index + 1]
        field_stop == IF index = Len(offsets) - 1
                      THEN stop - 2
                      ELSE offsets[index + 2].start - 1
        bin_offset == IF f.typ = "Binary" THEN 9 ELSE 1
    IN  [name |-> Slice(buf, f.start, f.start + f.namelen),
         value |-> Slice(buf, f.start + f.namelen + bin_offset, field_stop),
         typ |-> f.typ]

(* what a FieldIter yields until next() returns None *)
FieldIter(buf, cursor, offsets) ==
    [i \in 1..Len(offsets) |-> next(buf, cursor, offsets, i - 1)]

(* as_bytes that stops before the blank line *)
as_bytes_NoBlank(p) ==
    IF p.field_offsets = <<>> THEN <<256>>
    ELSE Slice(p.buf, p.field_offsets[1].start, p.cursor - 1)

(* RefEntry::as_bytes / RefEntry::iter.  field_offsets[0] of an empty list  *)
(* panics: <<256>>, which is no byte string, stands for the panic.          *)
as_bytes(p) ==
    IF p.field_offsets = <<>> THEN <<256>>
    ELSE Slice(p.buf, p.field_offsets[1].start, p.cursor)

iter(p) == FieldIter(p.buf, p.cursor, p.field_offsets)

(* an iter() that consumes the field list *)
iter_borrow_Drain(p) == [p EXCEPT !.field_offsets = <<>>]

(* the parser after iter(), as_bytes() or to_owned(): they take &self and  *)
(* FieldIter::next only advances the iterator's own index                  *)
iter_borrow(p) == p

(* to_owned that takes the end of the window for the cursor *)
to_owned_UpperCursor(p) ==
    [cursor |-> p.buf.upper, buf |-> clone_window(p.buf), offsets |-> p.field_offsets]

(* RefEntry::to_owned, OwnedEntry::as_bytes, OwnedEntry::iter *)
to_owned(p) == [cursor |-> p.cursor, buf |-> clone_window(p.buf), offsets |-> p.field_offsets]

owned_as_bytes(e) ==
    IF e.offsets = <<>> THEN <<256>>
    ELSE Slice(e.buf, e.offsets[1].start, e.cursor)

owned_iter(e) == FieldIter(e.buf, e.cursor, e.offsets)

(***************************************************************************)
(* Bounds of the model                                                     *)
(***************************************************************************)
(* items (fields, blank lines, stray bytes) the byte source may hold *)
MaxItems == 4
(* the limits tried: max_field_name_len \in 1..MaxNameLimit *)
MaxNameLimit == 2
(* parse_next calls made after the first one that reported an end or error *)
MaxRepeat == 1
(* the source takes up its next item while it holds at most so many bytes  *)
(* not yet delivered                                                       *)
MaxHeld == 2

(***************************************************************************)
(* The byte source.  Its content is a concatenation of items: encoded      *)
(* fields of FieldPool, the blank line that ends an entry, and stray       *)
(* single bytes; it may end anywhere (also inside an item).                *)
(***************************************************************************)
FieldPool ==
    << [name |-> <<65>>, value |-> <<120>>, typ |-> "String"],      \* A=x
       [name |-> <<49, 66>>, value |-> <<>>, typ |-> "String"],     \* 1B=
       [name |-> <<75>>, value |-> <<10>>, typ |-> "Binary"] >>     \* K, payload "\n"

StrayBytes == <<32, 65, 61>>                                        \* ' ' 'A' '='

(* the 8-byte little-endian encoding of n < 256 *)
le64(n) == <<n, 0, 0, 0, 0, 0, 0, 0>>

(* the wire form of a field *)
EncodeField(f) ==
    IF f.typ = "String"
    THEN f.name \o <<EQ>> \o f.value \o <<NL>>
    ELSE f.name \o <<NL>> \o le64(Len(f.value)) \o f.value \o <<NL>>

NFields == Len(FieldPool)

Blank == NFields + 1

ItemIds == 1..(NFields + 1 + Len(StrayBytes))

ItemBytes(i) ==
    IF i <= NFields THEN EncodeField(FieldPool[i])
    ELSE IF i = Blank THEN <<NL>>
    ELSE <<StrayBytes[i - Blank]>>

LimitsSet ==
    { [max_field_value_size |-> 1, max_field_name_len |-> n, max_entry_size |-> 16] :
        n \in 1..MaxNameLimit }

BufSizes == {1, 24}

(***************************************************************************)
(* State                                                                   *)
(*   p        the JournalExportParser owned by the reader                  *)
(*   pc       where the caller is: "idle" between parse_next calls, "read" *)
(*            inside parse_next, about to read into the slice an           *)
(*            Underfilled result handed out                                *)
(*   input    the bytes the source has delivered so far                    *)
(*   ahead    bytes the source holds and has not delivered yet             *)
(*   script   the items the source was given, in order                     *)
(*   exhausted  the source has reported 0 bytes                            *)
(*   outcomes what each parse_next call returned, with what the entry      *)
(*            views (get_entry() and its to_owned()) give for as_bytes and *)
(*            iter right after an Ok                                       *)
(***************************************************************************)
VARIABLES p, pc, input, ahead, script, exhausted, outcomes

vars == <<p, pc, input, ahead, script, exhausted, outcomes>>

(* what the caller sees after parse_next returned `r` *)
Outcome(q, r) ==
    IF r.kind = "Ok"
    THEN [kind |-> "Ok", err |-> "None", c |-> 0,
          bytes |-> as_bytes(q), fields |-> iter(q),
          obytes |-> owned_as_bytes(to_owned(q)), ofields |-> owned_iter(to_owned(q))]
    ELSE [kind |-> r.kind, err |-> r.err, c |-> r.c,
          bytes |-> <<>>, fields |-> <<>>, obytes |-> <<>>, ofields |-> <<>>]

(* Iterator::next of the reader, given what its parse_next call returned:  *)
(* self.parse_next().ok()??; Some(self.get_entry().to_owned())             *)
iterator_next(o) ==
    IF o.kind = "Ok"
    THEN [some |-> TRUE, bytes |-> o.obytes, fields |-> o.ofields]
    ELSE [some |-> FALSE, bytes |-> <<>>, fields |-> <<>>]

IsTerminal(o) == o.kind \in {"Eof", "Err"}

NTerminal == Cardinality({i \in 1..Len(outcomes) : IsTerminal(outcomes[i])})

(* buf_read.read(b) returned Len(bytes), then parse_state.extend(n) *)
ReadInto(q, bytes) == extend([q EXCEPT !.buf = WriteFree(q.buf, bytes)], Len(bytes))

Init ==
    /\ p \in {parser_new(l, b) : l \in LimitsSet, b \in BufSizes}
    /\ pc = "idle"
    /\ input = <<>>
    /\ ahead = <<>>
    /\ script = <<>>
    /\ exhausted = FALSE
    /\ outcomes = <<>>

(* parse() is called on q inside parse_next's loop: an Underfilled result   *)
(* sends the caller to read, any other result is what parse_next returns   *)
LoopTurn(q) ==
    LET it == parse(q)
    IN  /\ p' = it.p
        /\ IF it.ret.kind = "Underfilled"
           THEN pc' = "read" /\ outcomes' = outcomes
           ELSE pc' = "idle" /\ outcomes' = Append(outcomes, Outcome(it.p, it.ret))

(* parse_next is called: clear_entry(), then the first turn of the loop *)
ParseNextCall ==
    /\ pc = "idle"
    /\ NTerminal <= MaxRepeat
    /\ LoopTurn(clear_entry(p))
    /\ UNCHANGED <<input, ahead, script, exhausted>>

(* the source hands over k >= 1 bytes of what it holds (it may first take   *)
(* up one more item); extend(k) and the next turn of the loop follow       *)
ReadSome ==
    /\ pc = "read"
    /\ ~exhausted
    /\ \E more \in {0} \cup (IF Len(script) < MaxItems /\ Len(ahead) <= MaxHeld
                            THEN ItemIds ELSE {}) :
         LET avail == IF more = 0 THEN ahead ELSE ahead \o ItemBytes(more)
         IN  \E k \in 1..Min(Len(avail), free(p.buf)) :
               /\ LoopTurn(ReadInto(p, SubSeq(avail, 1, k)))
               /\ input' = input \o SubSeq(avail, 1, k)
               /\ ahead' = SubSeq(avail, k + 1, Len(avail))
               /\ script' = IF more = 0 THEN script ELSE Append(script, more)
    /\ UNCHANGED exhausted

(* the source is exhausted: read returns 0 (what it still held is cut      *)
(* off); extend(0) and the next turn of the loop follow                    *)
ReadNone ==
    /\ pc = "read"
    /\ LoopTurn(ReadInto(p, <<>>))
    /\ ahead' = <<>>
    /\ exhausted' = TRUE
    /\ UNCHANGED <<input, script>>

Next == ParseNextCall \/ ReadSome \/ ReadNone

Spec == Init /\ [][Next]_vars

(***************************************************************************)
(* The reference run: the same reader over a source that delivers all of   *)
(* `bytes` in answer to the first Underfilled request and 0 bytes          *)
(* afterwards, with a buffer large enough to take them at once.            *)
(***************************************************************************)
(* the loop of parse_next *)
RECURSIVE RefLoop(_, _)
RefLoop(q, pending) ==
    LET it == parse(q)
    IN  IF it.ret.kind = "Underfilled"
        THEN RefLoop(ReadInto(it.p, pending), <<>>)
        ELSE [p |-> it.p, pending |-> pending, out |-> Outcome(it.p, it.ret)]

(* the outcomes of n successive parse_next calls *)
RECURSIVE RefCalls(_, _, _)
RefCalls(q, pending, n) ==
    IF n = 0 THEN <<>>
    ELSE LET r == RefLoop(clear_entry(q), pending)
         IN  <<r.out>> \o RefCalls(r.p, r.pending, n - 1)

SingleChunk(limits, bytes, n) ==
    RefCalls(parser_new(limits, Max(1, Len(bytes))), bytes, n)

(* C1: resumability.  Whenever parse_next has returned, the outcomes so    *)
(* far (entries with their bytes and fields, error kinds, clean end) of    *)
(* the run that received its input in chunks are the outcomes of as many   *)
(* parse_next calls of the run that receives in a single chunk all the     *)
(* source holds: the bytes delivered and the bytes still to be delivered   *)
(* (none, once the source is exhausted).                                   *)
C1_Resumable ==
    pc = "idle" => outcomes = SingleChunk(p.limits, input \o ahead, Len(outcomes))

(* an entry with a binary field was completed and the end reported, by a   *)
(* reader whose buffer started with capacity 1 (a backing store of 16 has  *)
(* doubled from 1, not from 24): the input arrived in chunks of at most    *)
(* 1, 1, 2, 4, 8 bytes and parse() was suspended and resumed inside the    *)
(* record                                                                  *)
C1_Witness ==
    /\ pc = "idle"
    /\ Len(p.buf.buf) = 16
    /\ Len(outcomes) >= 2
    /\ outcomes[1].kind = "Ok"
    /\ \E i \in 1..Len(outcomes[1].fields) : outcomes[1].fields[i].typ = "Binary"
    /\ outcomes[Len(outcomes)].kind = "Eof"

(***************************************************************************)
(* What the source was given, read off the script (not off the parser)     *)
(***************************************************************************)
(* the items of the script up to the first blank line, and what follows it *)
RECURSIVE FirstGroup(_)
FirstGroup(sc) ==
    IF sc = <<>> \/ Head(sc) = Blank THEN <<>> ELSE <<Head(sc)>> \o FirstGroup(Tail(sc))

RECURSIVE AfterFirstBlank(_)
AfterFirstBlank(sc) ==
    IF sc = <<>> THEN <<>>
    ELSE IF Head(sc) = Blank THEN Tail(sc) ELSE AfterFirstBlank(Tail(sc))

(* the blank-line-terminated groups of items, in order *)
RECURSIVE Groups(_)
Groups(sc) ==
    IF \A i \in 1..Len(sc) : sc[i] # Blank THEN <<>>
    ELSE <<FirstGroup(sc)>> \o Groups(AfterFirstBlank(sc))

(* the script holds fields and blank lines only *)
NoStray == \A i \in 1..Len(script) : script[i] <= Blank

FieldsOf(g) == [j \in 1..Len(g) |-> FieldPool[g[j]]]

RECURSIVE Concat(_)
Concat(ss) == IF ss = <<>> THEN <<>> ELSE Head(ss) \o Concat(Tail(ss))

(* the wire bytes of the fields of a group, without the blank line *)
EncodeGroup(g) == Concat([j \in 1..Len(g) |-> EncodeField(FieldPool[g[j]])])

FieldWithinLimits(f, limits) ==
    /\ Len(f.name) <= limits.max_field_name_len
    /\ Len(f.value) <= limits.max_field_value_size

(* a group is a valid entry: one or more fields within the limits, the     *)
(* first name starting with a letter or '_'                                *)
ValidGroup(g, limits) ==
    /\ g # <<>>
    /\ \A j \in 1..Len(g) : g[j] <= NFields /\ FieldWithinLimits(FieldPool[g[j]], limits)
    /\ LET c == FieldPool[g[1]].name[1] IN is_ascii_alphabetic(c) \/ c = UNDERSCORE

(* the source held N >= 1 valid entries and nothing else, delivered them   *)
(* all and reported its exhaustion                                         *)
ValidStream ==
    /\ script # <<>>
    /\ script[Len(script)] = Blank
    /\ \A i \in 1..Len(Groups(script)) : ValidGroup(Groups(script)[i], p.limits)
    /\ exhausted
    /\ input = Concat([i \in 1..Len(script) |-> ItemBytes(script[i])])

(* C2: round-trip count.  After a stream of N valid entries has been read  *)
(* to its end, the first N parse_next calls returned Ok, the i-th with the *)
(* fields of the i-th entry of the source, and every later call returned   *)
(* the clean end.                                                          *)
C2_RoundTripCount ==
    (pc = "idle" /\ ValidStream /\ NTerminal >= 1) =>
        LET gs == Groups(script)
        IN  /\ Len(outcomes) > Len(gs)
            /\ \A i \in 1..Len(outcomes) :
                 IF i <= Len(gs)
                 THEN outcomes[i].kind = "Ok" /\ outcomes[i].fields = FieldsOf(gs[i])
                 ELSE outcomes[i].kind = "Eof"

(* a stream of two valid entries was parsed to its end *)
C2_Witness ==
    /\ pc = "idle"
    /\ ValidStream
    /\ Len(Groups(script)) = 2
    /\ Len(outcomes) = 3
    /\ outcomes[3].kind = "Eof"

C4_Iter ==
    NoStray =>
        \A i \in 1..Len(outcomes) :
            outcomes[i].kind = "Ok" =>
                /\ outcomes[i].fields = FieldsOf(Groups(script)[i])
                /\ outcomes[i].ofields = FieldsOf(Groups(script)[i])

(* an entry of a text field followed by a binary field was completed and   *)
(* iterated                                                                *)
C4_Witness ==
    /\ NoStray
    /\ Len(outcomes) >= 1
    /\ outcomes[1].kind = "Ok"
    /\ Len(outcomes[1].fields) = 2
    /\ outcomes[1].fields[1].typ = "String"
    /\ outcomes[1].fields[2] = [name |-> <<75>>, value |-> <<10>>, typ |-> "Binary"]

(* C5: empty input.  When the source is exhausted before it delivered any  *)
(* byte, the first parse_next call reports the clean end of the stream.    *)
C5_EmptyInput_Claimed ==
    (pc = "idle" /\ exhausted /\ input = <<>> /\ Len(outcomes) >= 1) =>
        outcomes[1].kind = "Eof"

(***************************************************************************)
(* Where the source ended, read off the script and the number of bytes it  *)
(* delivered                                                               *)
(***************************************************************************)
(* the items after the last blank line of the script: an entry not ended *)
Trailing(sc) ==
    LET blanks == {i \in 1..Len(sc) : sc[i] = Blank}
        last == IF blanks = {} THEN 0 ELSE CHOOSE i \in blanks : \A j \in blanks : j <= i
    IN  SubSeq(sc, last + 1, Len(sc))

(* the number of bytes of the first n entries, each with its blank line *)
RECURSIVE GroupEnd(_, _)
GroupEnd(gs, n) ==
    IF n = 0 THEN 0 ELSE GroupEnd(gs, n - 1) + Len(EncodeGroup(gs[n])) + 1

(* the entries the delivered bytes hold in full *)
NComplete ==
    Cardinality({n \in 1..Len(Groups(script)) : GroupEnd(Groups(script), n) <= Len(input)})

(* the script is made of valid entries, the last of them possibly not      *)
(* ended by its blank line                                                 *)
ValidScript ==
    /\ script # <<>>
    /\ \A i \in 1..Len(Groups(script)) : ValidGroup(Groups(script)[i], p.limits)
    /\ Trailing(script) # <<>> => ValidGroup(Trailing(script), p.limits)

(* C6: end-of-source classification.  When a source of valid entries ends  *)
(* right after the blank line of its N-th entry (N >= 1), parse_next       *)
(* returns N entries and then the clean end; when it ends at least one     *)
(* byte into an entry and before that entry's blank line, parse_next       *)
(* returns the N entries before it and then UnexpectedEof.                 *)
C6_EndOfSource ==
    (pc = "idle" /\ exhausted /\ ValidScript /\ NTerminal >= 1) =>
        LET n == NComplete
            atEnd == GroupEnd(Groups(script), n)
        IN  /\ Len(outcomes) > n
            /\ \A i \in 1..n : outcomes[i].kind = "Ok"
            /\ (n >= 1 /\ Len(input) = atEnd) => outcomes[n + 1].kind = "Eof"
            /\ Len(input) > atEnd =>
                 outcomes[n + 1].kind = "Err" /\ outcomes[n + 1].err = "UnexpectedEof"

(* the source ended inside its second entry: one entry, then UnexpectedEof *)
C6_Witness ==
    /\ pc = "idle"
    /\ exhausted
    /\ ValidScript
    /\ NComplete = 1
    /\ Len(input) > GroupEnd(Groups(script), 1)
    /\ Len(outcomes) = 2
    /\ outcomes[2].err = "UnexpectedEof"

IsFatal(o) ==
    o.kind = "Err" /\ o.err \in {"UnexpectedCharacter", "FieldNameTooLong", "FieldValueTooLong"}

(* C7: terminal failure state.  Once a call has returned a fatal error     *)
(* (UnexpectedCharacter, FieldNameTooLong, FieldValueTooLong), the next    *)
(* call returns that same error again.                                     *)
C7_FailureRepeats_Claimed ==
    \A i \in 1..Len(outcomes) :
        (i > 1 /\ IsFatal(outcomes[i - 1])) => outcomes[i] = outcomes[i - 1]

(* C8: the first byte of every completed entry, the first entry of the     *)
(* stream included, is an ASCII letter or '_'.                             *)
C8_EntryFirstByte_Claimed ==
    NoStray =>
        \A i \in 1..Len(outcomes) :
            outcomes[i].kind = "Ok" =>
                LET c == EncodeGroup(Groups(script)[i])[1]
                IN  is_ascii_alphabetic(c) \/ c = UNDERSCORE

(* C9: no empty entry.  Every entry parse_next reports has at least one    *)
(* field (as_bytes never runs on an empty field list), and a blank line    *)
(* where the first field of an entry is expected is answered with          *)
(* UnexpectedCharacter of the newline.                                     *)
C9_NoEmptyEntry ==
    /\ \A i \in 1..Len(outcomes) :
         outcomes[i].kind = "Ok" =>
            /\ Len(outcomes[i].fields) >= 1
            /\ outcomes[i].bytes # <<256>>
    /\ NoStray =>
         \A i \in 1..Len(outcomes) :
            ( /\ i <= Len(Groups(script))
              /\ Groups(script)[i] = <<>>
              /\ Len(input) >= GroupEnd(Groups(script), i)
              /\ \A j \in 1..(i - 1) : outcomes[j].kind = "Ok" )
            => outcomes[i] = Outcome(p, ResUnexpectedCharacter(NL))

(* an entry was completed and the blank line after its blank line was      *)
(* refused                                                                 *)
C9_Witness ==
    /\ NoStray
    /\ Len(outcomes) >= 2
    /\ outcomes[1].kind = "Ok"
    /\ Len(Groups(script)) >= 2
    /\ Groups(script)[2] = <<>>
    /\ outcomes[2].err = "UnexpectedCharacter"
    /\ outcomes[2].c = NL

IsNameByte(c) == is_ascii_alphanumeric(c) \/ c = UNDERSCORE

(* the number of field-name bytes of `bytes` from 0-based position s on *)
RECURSIVE NameRun(_, _)
NameRun(bytes, s) ==
    IF s < Len(bytes) /\ IsNameByte(bytes[s + 1]) THEN 1 + NameRun(bytes, s + 1) ELSE 0

(* C10: field-name limit boundary.  No recorded or reported field has a    *)
(* name longer than max_field_name_len; and once parse_next has returned   *)
(* with, in the bytes delivered, a name of n >= 1 bytes followed by '=' or *)
(* newline at the start of the field the parser last began: the parser     *)
(* has failed with FieldNameTooLong if and only if n > max_field_name_len, *)
(* and otherwise has taken the n bytes as the name.                        *)
C10_NameLimit ==
    /\ \A i \in 1..Len(p.field_offsets) :
         /\ p.field_offsets[i].namelen >= 1
         /\ p.field_offsets[i].namelen <= p.limits.max_field_name_len
    /\ \A i \in 1..Len(outcomes) : \A j \in 1..Len(outcomes[i].fields) :
         Len(outcomes[i].fields[j].name) <= p.limits.max_field_name_len
    /\ LET s == p.field_start
           n == NameRun(input, s)
       IN  ( /\ pc = "idle"
             /\ outcomes # <<>>
             /\ n >= 1
             /\ s + n < Len(input)
             /\ input[s + n + 1] \in {EQ, NL} )
           => /\ (n > p.limits.max_field_name_len) <=>
                   (\E i \in 1..Len(outcomes) : outcomes[i].err = "FieldNameTooLong")
              /\ (n <= p.limits.max_field_name_len) => p.namelen = n

(* a field whose name has exactly max_field_name_len bytes was recorded    *)
(* and the next field, whose name has one byte more and is followed by     *)
(* '=', was refused with FieldNameTooLong                                  *)
C10_Witness ==
    /\ pc = "idle"
    /\ Len(p.field_offsets) >= 1
    /\ p.field_offsets[1].namelen = p.limits.max_field_name_len
    /\ NameRun(input, p.field_start) = p.limits.max_field_name_len + 1
    /\ p.field_start + NameRun(input, p.field_start) < Len(input)
    /\ input[p.field_start + NameRun(input, p.field_start) + 1] = EQ
    /\ outcomes # <<>>
    /\ outcomes[Len(outcomes)].err = "FieldNameTooLong"

(* the number of bytes other than newline of `bytes` from 0-based position *)
(* s on                                                                    *)
RECURSIVE ValueRun(_, _)
ValueRun(bytes, s) ==
    IF s < Len(bytes) /\ bytes[s + 1] # NL THEN 1 + ValueRun(bytes, s + 1) ELSE 0

(* the field the parser last began is a text field in the bytes delivered: *)
(* a name within the name limit followed by '='                            *)
TextFieldBegun ==
    LET n == NameRun(input, p.field_start)
    IN  /\ n >= 1
        /\ n <= p.limits.max_field_name_len
        /\ p.field_start + n < Len(input)
        /\ input[p.field_start + n + 1] = EQ

(* C11: text-value limit boundary.  For the text field the parser last     *)
(* began, with m value bytes delivered before any newline: if m exceeds    *)
(* max_field_value_size, parse_next has already returned                   *)
(* FieldValueTooLong, the cursor on the (max+1)-th value byte, and the     *)
(* reader is not waiting for bytes (also when the source has delivered no  *)
(* newline); if the value is ended by a newline and m is at most           *)
(* max_field_value_size (m equal to it included), no FieldValueTooLong was *)
(* returned and the field was recorded with these m bytes as its value.    *)
C11_TextValueLimit ==
    TextFieldBegun =>
        LET vs == p.field_start + NameRun(input, p.field_start) + 1
            m == ValueRun(input, vs)
            max == p.limits.max_field_value_size
        IN  /\ m > max =>
                /\ pc = "idle"
                /\ p.parse_state = "Eof"
                /\ p.cursor = vs + max
                /\ \E i \in 1..Len(outcomes) :
                     /\ outcomes[i].err = "FieldValueTooLong"
                     /\ \A j \in 1..(i - 1) : outcomes[j].kind = "Ok"
            /\ (m <= max /\ vs + m < Len(input)) =>
                /\ \A i \in 1..Len(outcomes) : outcomes[i].err # "FieldValueTooLong"
                /\ p.cursor >= vs + m + 1
                /\ p.field_offsets # <<>> =>
                     LET f == p.field_offsets[Len(p.field_offsets)]
                     IN  /\ f.start = p.field_start
                         /\ f.namelen = vs - 1 - p.field_start
                         /\ f.typ = "String"
                /\ ( /\ pc = "idle"
                      /\ p.field_offsets # <<>>
                      /\ outcomes # <<>>
                      /\ outcomes[Len(outcomes)].kind = "Ok" ) =>
                     LET fs == outcomes[Len(outcomes)].fields
                     IN  fs[Len(fs)].value = SubSeq(input, vs + 1, vs + m)

(* a text value of exactly max_field_value_size bytes was accepted, and    *)
(* the next field of the entry was refused with FieldValueTooLong when its *)
(* (max+1)-th value byte arrived, the source having delivered nothing      *)
(* after that byte                                                         *)
C11_Witness ==
    /\ TextFieldBegun
    /\ LET vs == p.field_start + NameRun(input, p.field_start) + 1
       IN  /\ Len(input) = vs + p.limits.max_field_value_size + 1
           /\ ValueRun(input, vs) = p.limits.max_field_value_size + 1
    /\ Len(p.field_offsets) = 1
    /\ p.field_offsets[1].typ = "String"
    /\ p.field_start - p.field_offsets[1].start - p.field_offsets[1].namelen - 2
         = p.limits.max_field_value_size
    /\ pc = "idle"
    /\ Len(outcomes) = 1
    /\ outcomes[1].err = "FieldValueTooLong"

(* the field the parser last began is a binary field in the bytes          *)
(* delivered: a name within the name limit followed by newline and by the  *)
(* 8 bytes of the declared length                                          *)
BinaryLengthDelivered ==
    LET n == NameRun(input, p.field_start)
    IN  /\ n >= 1
        /\ n <= p.limits.max_field_name_len
        /\ p.field_start + n + 9 <= Len(input)
        /\ input[p.field_start + n + 1] = NL

(* the length that field declares *)
DeclaredLength ==
    LET len_stop == p.field_start + NameRun(input, p.field_start) + 9
    IN  from_le_bytes(SubSeq(input, len_stop - 7, len_stop))

(* C12: binary-length limit.  Once the 8 length bytes of a binary field    *)
(* have been delivered and the declared length exceeds                     *)
(* max_field_value_size, parse_next has returned FieldValueTooLong and the *)
(* reader is not waiting for a payload byte.                               *)
C12_BinaryLengthLimit_Claimed ==
    (BinaryLengthDelivered /\ DeclaredLength > p.limits.max_field_value_size) =>
        /\ pc = "idle"
        /\ \E i \in 1..Len(outcomes) : outcomes[i].err = "FieldValueTooLong"

(* C13: entry-size limit.  No entry is reported complete whose size, from  *)
(* its first field name to the end of its last field, exceeds              *)
(* max_entry_size; such an entry is answered with an error.                *)
C13_EntrySizeLimit_Claimed ==
    NoStray =>
        \A i \in 1..Len(outcomes) :
            (i <= Len(Groups(script)) /\ Len(input) >= GroupEnd(Groups(script), i)) =>
                (Len(EncodeGroup(Groups(script)[i])) > p.limits.max_entry_size =>
                    outcomes[i].kind = "Err")

(* the capacity the parser's buffer was created with: the store only ever  *)
(* doubles, and the capacities reached by doubling from the sizes of       *)
(* BufSizes are distinct                                                   *)
InitialCapacity ==
    CHOOSE b \in BufSizes : \E k \in 0..8 : Len(p.buf.buf) = b * (2 ^ k)

(* every entry of the script, the one not yet ended included, fits in c    *)
(* bytes with its blank line                                               *)
EntriesFit(c) ==
    /\ \A i \in 1..Len(Groups(script)) : Len(EncodeGroup(Groups(script)[i])) + 1 <= c
    /\ Len(EncodeGroup(Trailing(script))) + 1 <= c

(* C14: bounded buffer for small records.  While the source holds valid    *)
(* entries each of which fits in the buffer's capacity, the backing store  *)
(* keeps the capacity it was created with.                                 *)
C14_BoundedBuffer_Claimed ==
    (ValidScript /\ EntriesFit(InitialCapacity)) => Len(p.buf.buf) = InitialCapacity

(***************************************************************************)
(* The same reader with a buffer created with capacity c, over a source    *)
(* that fills all of the slice each Underfilled request hands out (or      *)
(* delivers all it has left, if that is less)                              *)
(***************************************************************************)
AltCapacities == {3, 32}

RECURSIVE CapLoop(_, _)
CapLoop(q, pending) ==
    LET it == parse(q)
    IN  IF it.ret.kind = "Underfilled"
        THEN LET k == Min(free(it.p.buf), Len(pending))
             IN  CapLoop(ReadInto(it.p, SubSeq(pending, 1, k)),
                         SubSeq(pending, k + 1, Len(pending)))
        ELSE [p |-> it.p, pending |-> pending, out |-> Outcome(it.p, it.ret)]

RECURSIVE CapCalls(_, _, _)
CapCalls(q, pending, n) ==
    IF n = 0 THEN <<>>
    ELSE LET r == CapLoop(clear_entry(q), pending)
         IN  <<r.out>> \o CapCalls(r.p, r.pending, n - 1)

(* C15: capacity independence.  Whenever parse_next has returned, the      *)
(* outcomes so far (entries with their fields and bytes, errors, clean     *)
(* end) are those of a reader over the same source content whose buffer    *)
(* was created with any other capacity c >= 1, smaller or larger than the  *)
(* entries: growing the store changes nothing of what is parsed, for the   *)
(* entry that made it grow and for the entries after it.                   *)
C15_CapacityIndependent ==
    pc = "idle" =>
        \A c \in AltCapacities :
            outcomes = CapCalls(parser_new(p.limits, c), input \o ahead, Len(outcomes))

(* through a buffer created with capacity 1, a 14-byte entry (a binary     *)
(* field) and the entry after it were both returned, then the clean end;   *)
(* the store has grown to 32                                               *)
C15_Witness ==
    /\ pc = "idle"
    /\ InitialCapacity = 1
    /\ Len(p.buf.buf) = 32
    /\ Len(outcomes) = 3
    /\ outcomes[1].kind = "Ok"
    /\ outcomes[1].fields[1].typ = "Binary"
    /\ outcomes[2].kind = "Ok"
    /\ outcomes[3].kind = "Eof"

(***************************************************************************)
(* ShiftBuffer on its own: a client calls new, extend, shrink, make_room,  *)
(* shift and clone_window in any order with any argument.                  *)
(*   p.buf     the ShiftBuffer the client holds (after clone_window: the   *)
(*             clone)                                                      *)
(*   pc        "sb" while every call has returned, "panic" once one has    *)
(*             panicked                                                    *)
(*   outcomes  the last call: <<[op, n, before, panicked]>>, `before` the  *)
(*             buffer the call was made on                                 *)
(* The byte the client writes at absolute position q is q + 1, so that     *)
(* every position of the stream holds a different byte.                    *)
(***************************************************************************)
(* sizes passed to ShiftBuffer::new: 0..MaxInitSize *)
MaxInitSize == 4
(* make_room doubles the store while the result is at most MaxCapacity *)
MaxCapacity == 8
(* the client writes at most so many bytes in all *)
MaxStream == 8

InitSB ==
    /\ p \in {parser_new(CHOOSE l \in LimitsSet : TRUE, c) : c \in 0..MaxInitSize}
    /\ pc = "sb"
    /\ input = <<>>
    /\ ahead = <<>>
    /\ script = <<>>
    /\ exhausted = FALSE
    /\ outcomes = <<>>

(* a call of `op` with argument n that returns normally (ok) with the      *)
(* buffer `after`, or panics                                               *)
SBCall(op, n, ok, after) ==
    /\ pc = "sb"
    /\ outcomes' = <<[op |-> op, n |-> n, before |-> p.buf, panicked |-> ~ok]>>
    /\ IF ok
       THEN p' = [p EXCEPT !.buf = after] /\ pc' = "sb"
       ELSE p' = p /\ pc' = "panic"
    /\ UNCHANGED <<input, ahead, script, exhausted>>

(* the bytes the client writes at the absolute positions from `from` on *)
StreamBytes(from, n) == [i \in 1..n |-> from + i]

(* the client writes n bytes into free() (as many as fit) and calls        *)
(* extend(n)                                                               *)
ExtendCall ==
    \E n \in 0..(free(p.buf) + 1) :
        /\ p.buf.upper + n <= MaxStream
        /\ SBCall("extend", n, SB_extend_ok(p.buf, n),
                  SB_extend(WriteFree(p.buf, StreamBytes(p.buf.upper, n)), n))

ShrinkCall ==
    \E n \in 0..(p.buf.upper - p.buf.lower + 1) :
        SBCall("shrink", n, shrink_ok(p.buf, n), shrink(p.buf, n))

MakeRoomCall ==
    /\ (relative_pos(p.buf, p.buf.upper) = Len(p.buf.buf) /\ p.buf.lower = p.buf.offset)
          => 2 * Len(p.buf.buf) <= MaxCapacity
    /\ SBCall("make_room", 0, make_room_ok(p.buf), make_room(p.buf))

ShiftCall == SBCall("shift", 0, shift_ok(p.buf), shift(p.buf))

CloneWindowCall == SBCall("clone_window", 0, TRUE, clone_window(p.buf))

NextSB == ExtendCall \/ ShrinkCall \/ MakeRoomCall \/ ShiftCall \/ CloneWindowCall

SpecSB == InitSB /\ [][NextSB]_vars

(* the last call was `op` and it returned normally *)
Returned(op) ==
    outcomes # <<>> /\ outcomes[1].op = op /\ ~outcomes[1].panicked

(* C16: ShiftBuffer window invariant.  After every sequence of new,        *)
(* extend, shrink, make_room, shift and clone_window calls,                *)
(* offset <= lower <= upper <= offset + capacity (after clone_window: of   *)
(* the clone).                                                             *)
C16_WindowInvariant ==
    /\ p.buf.offset <= p.buf.lower
    /\ p.buf.lower <= p.buf.upper
    /\ p.buf.upper <= p.buf.offset + Len(p.buf.buf)

(* a clone was taken of a non-empty window whose lower end is past the     *)
(* store's offset, of a store that has been shifted (offset > 0) and has   *)
(* grown beyond every initial size                                         *)
C16_Witness ==
    /\ Returned("clone_window")
    /\ outcomes[1].before.offset > 0
    /\ outcomes[1].before.lower > outcomes[1].before.offset
    /\ outcomes[1].before.upper > outcomes[1].before.lower
    /\ Len(outcomes[1].before.buf) > MaxInitSize
    /\ p.buf.upper = p.buf.offset + Len(p.buf.buf)

(* C17: Pointer stability.  After make_room (growing or shifting), extend  *)
(* or shift has returned, every Pointer q of the window the call was made  *)
(* on (lower <= q < upper) indexes the byte it indexed before the call.    *)
C17_PointerStability_Claimed ==
    (Returned("make_room") \/ Returned("extend") \/ Returned("shift")) =>
        \A q \in outcomes[1].before.lower..(outcomes[1].before.upper - 1) :
            At(p.buf, q) = At(outcomes[1].before, q)

(* C18: the slice make_room returns, which is free() of the buffer it      *)
(* leaves, has at least one element, whatever size the buffer was created  *)
(* with and wherever its window is.                                        *)
C18_MakeRoomNonEmpty_Claimed ==
    Returned("make_room") => free(p.buf) >= 1

(* C19: make_room, called with the upper end of the window at the end of   *)
(* the store, doubles the capacity and leaves offset, lower and upper      *)
(* alone if lower = offset; otherwise it keeps the capacity, sets offset   *)
(* to lower and leaves the bytes of the window [lower, upper) at the       *)
(* indices 0 .. upper - lower of the store.                                *)
C19_GrowOrShift_Claimed ==
    ( /\ outcomes # <<>>
      /\ outcomes[1].op = "make_room"
      /\ relative_pos(outcomes[1].before, outcomes[1].before.upper)
           = Len(outcomes[1].before.buf) ) =>
        LET b == outcomes[1].before
        IN  /\ ~outcomes[1].panicked
            /\ p.buf.lower = b.lower
            /\ p.buf.upper = b.upper
            /\ IF b.lower = b.offset
               THEN /\ Len(p.buf.buf) = 2 * Len(b.buf)
                    /\ p.buf.offset = b.offset
               ELSE /\ Len(p.buf.buf) = Len(b.buf)
                    /\ p.buf.offset = b.lower
                    /\ SubSeq(p.buf.buf, 1, b.upper - b.lower) = Slice(b, b.lower, b.upper)

(* C20: shrink(n) returns for every n with lower + n <= upper, with lower  *)
(* advanced by n and nothing else changed; it is rejected only for         *)
(* lower + n > upper.                                                      *)
C20_Shrink_Claimed ==
    (outcomes # <<>> /\ outcomes[1].op = "shrink") =>
        LET b == outcomes[1].before
            n == outcomes[1].n
        IN  IF b.lower + n <= b.upper
            THEN ~outcomes[1].panicked /\ p.buf = [b EXCEPT !.lower = b.lower + n]
            ELSE outcomes[1].panicked

(* C21: extend(n), called after n bytes were written into free(): for n at *)
(* most the length of free() it returns with upper advanced by exactly n,  *)
(* lower, offset, the capacity and every byte stored before the write      *)
(* unchanged, and the window's new range [old upper, new upper) reads back *)
(* the bytes written; for a larger n it panics and the buffer keeps its    *)
(* upper (never past the end of the store).                                *)
C21_Extend ==
    (outcomes # <<>> /\ outcomes[1].op = "extend") =>
        LET b == outcomes[1].before
            n == outcomes[1].n
        IN  IF n <= free(b)
            THEN /\ ~outcomes[1].panicked
                 /\ p.buf.upper = b.upper + n
                 /\ p.buf.lower = b.lower
                 /\ p.buf.offset = b.offset
                 /\ Len(p.buf.buf) = Len(b.buf)
                 /\ \A i \in 1..Len(b.buf) :
                      (i <= relative_pos(b, b.upper) \/ i > relative_pos(b, b.upper) + n)
                          => p.buf.buf[i] = b.buf[i]
                 /\ Slice(p.buf, b.upper, p.buf.upper) = StreamBytes(b.upper, n)
            ELSE /\ outcomes[1].panicked
                 /\ p.buf = b
                 /\ relative_pos(p.buf, p.buf.upper) <= Len(p.buf.buf)

(* extend(n) with n >= 2 returned on a store that had been shifted and     *)
(* whose window was not empty: the new bytes lie behind older ones         *)
C21_Witness ==
    /\ Returned("extend")
    /\ outcomes[1].n >= 2
    /\ outcomes[1].before.offset > 0
    /\ outcomes[1].before.upper > outcomes[1].before.lower
    /\ p.buf.upper = outcomes[1].before.upper + outcomes[1].n

(* C24: make_room leaves the window bounds alone.  After make_room has     *)
(* returned, in its no-op, its growing and its shifting branch, lower and  *)
(* upper are what they were (so upper is no nearer to any position of the  *)
(* record in progress), and when upper was not at the end of the store     *)
(* the whole buffer is what it was.                                        *)
C24_MakeRoomKeepsWindow ==
    Returned("make_room") =>
        LET b == outcomes[1].before
        IN  /\ p.buf.lower = b.lower
            /\ p.buf.upper = b.upper
            /\ relative_pos(b, b.upper) # Len(b.buf) => p.buf = b

(* make_room returned from its shifting branch on a non-empty window *)
C24_Witness ==
    /\ Returned("make_room")
    /\ relative_pos(outcomes[1].before, outcomes[1].before.upper) = Len(outcomes[1].before.buf)
    /\ outcomes[1].before.lower # outcomes[1].before.offset
    /\ outcomes[1].before.upper > outcomes[1].before.lower
    /\ p.buf.offset = outcomes[1].before.lower

(* C22: owned copy.  For every entry parse_next has returned so far, the   *)
(* OwnedEntry taken by to_owned() when it was returned gave the as_bytes() *)
(* and the iter() sequence of the borrowed view of that moment (the        *)
(* parser has since cleared, parsed, extended and grown its buffer); and   *)
(* clone_window of the parser's buffer has the window's bounds, a store of *)
(* exactly upper - lower bytes, and under every Pointer of the window the  *)
(* byte the buffer has there.                                              *)
C22_OwnedCopy ==
    /\ \A i \in 1..Len(outcomes) :
         outcomes[i].kind = "Ok" =>
            /\ outcomes[i].obytes = outcomes[i].bytes
            /\ outcomes[i].ofields = outcomes[i].fields
    /\ LET w == clone_window(p.buf)
       IN  /\ w.lower = p.buf.lower
           /\ w.upper = p.buf.upper
           /\ w.offset = p.buf.lower
           /\ Len(w.buf) = p.buf.upper - p.buf.lower
           /\ \A q \in p.buf.lower..(p.buf.upper - 1) : At(w, q) = At(p.buf, q)

(* an entry with a binary field was returned and its owned copy taken, and *)
(* the parser has gone on to return a second, different entry              *)
C22_Witness ==
    /\ Len(outcomes) >= 2
    /\ outcomes[1].kind = "Ok"
    /\ outcomes[2].kind = "Ok"
    /\ outcomes[1].obytes # outcomes[2].obytes
    /\ outcomes[1].ofields[1].typ = "Binary"
    /\ outcomes[2].ofields[1].typ = "String"

(***************************************************************************)
(* The entry views on their own: after a parse_next call has returned an   *)
(* entry, the caller calls get_entry().iter(), .as_bytes() and .to_owned() *)
(* and the parser's clear_entry() in any order.                            *)
(*   p         the parser, as parse_next left it                           *)
(*   pc        "view"                                                      *)
(*   input, ahead   the bytes delivered and those the source still holds   *)
(*   script    the items the source was given                              *)
(*   outcomes  the calls made: [op, fields, bytes, before], `before` the   *)
(*             parser the call was made on                                 *)
(***************************************************************************)
(* calls made on the views of one entry *)
MaxViews == 3

(* what the source holds: an entry of one or two fields, or an entry of    *)
(* one field followed by the start of the next entry                       *)
ViewScripts ==
    {<<a, Blank>> : a \in 1..NFields}
        \cup {<<a, b, Blank>> : a \in 1..NFields, b \in 1..NFields}
        \cup {<<a, Blank, 1>> : a \in 1..NFields}

InitView ==
    \E l \in LimitsSet, c \in BufSizes, sc \in ViewScripts :
        LET bytes == Concat([i \in 1..Len(sc) |-> ItemBytes(sc[i])])
            r == CapLoop(clear_entry(parser_new(l, c)), bytes)
        IN  /\ r.out.kind = "Ok"
            /\ p = r.p
            /\ pc = "view"
            /\ input = SubSeq(bytes, 1, Len(bytes) - Len(r.pending))
            /\ ahead = r.pending
            /\ script = sc
            /\ exhausted = FALSE
            /\ outcomes = <<>>

(* a call `op` on the view that yields `fields` and `bytes` and leaves the *)
(* parser `after`                                                          *)
ViewCall(op, fields, bytes, after) ==
    /\ pc = "view"
    /\ Len(outcomes) < MaxViews
    /\ outcomes' = Append(outcomes, [op |-> op, fields |-> fields, bytes |-> bytes,
                                     before |-> p])
    /\ p' = after
    /\ UNCHANGED <<pc, input, ahead, script, exhausted>>

IterCall == ViewCall("iter", iter(p), <<>>, iter_borrow(p))

AsBytesCall == ViewCall("as_bytes", <<>>, as_bytes(p), iter_borrow(p))

ToOwnedCall ==
    ViewCall("to_owned", owned_iter(to_owned(p)), owned_as_bytes(to_owned(p)), iter_borrow(p))

ClearEntryCall == ViewCall("clear_entry", <<>>, <<>>, clear_entry(p))

NextView == IterCall \/ AsBytesCall \/ ToOwnedCall \/ ClearEntryCall

SpecView == InitView /\ [][NextView]_vars

(* the parser the i-th call left *)
AfterCall(i) == IF i < Len(outcomes) THEN outcomes[i + 1].before ELSE p

C25_DistinctOutcomes_Claimed ==
    \A i \in 1..Len(outcomes) :
        outcomes[i].kind = "Err" =>
            iterator_next(outcomes[i]) # iterator_next(Outcome(p, ResEof))

(***************************************************************************)
(* config.rs: JournalExportLimits and its builder.  An Option<usize> is    *)
(* [some, v].                                                              *)
(***************************************************************************)
None == [some |-> FALSE, v |-> 0]

Some(n) == [some |-> TRUE, v |-> n]

unwrap_or(o, d) == IF o.some THEN o.v ELSE d

(* impl Default for JournalExportLimits *)
JournalExportLimits_default ==
    [max_field_value_size |-> 12 * 1024, max_field_name_len |-> 128,
     max_entry_size |-> 2 ^ 14]

(* JournalExportLimitsBuilder::new *)
builder_new ==
    [max_field_value_size |-> None, max_field_name_len |-> None, max_entry_size |-> None]

(* the with_* calls without their assertion *)
with_ok_Unchecked(size) == TRUE

(* assert!(size > 0) of the with_* calls *)
with_ok(size) == size > 0

with_max_field_value_size(b, size) == [b EXCEPT !.max_field_value_size = Some(size)]

with_max_field_name_len(b, size) == [b EXCEPT !.max_field_name_len = Some(size)]

with_max_entry_size(b, size) == [b EXCEPT !.max_entry_size = Some(size)]

(* JournalExportLimitsBuilder::build *)
build(b) ==
    LET defaults == JournalExportLimits_default
    IN  [max_field_value_size |-> unwrap_or(b.max_field_value_size,
                                            defaults.max_field_value_size),
         max_field_name_len |-> unwrap_or(b.max_field_name_len, defaults.max_field_name_len),
         max_entry_size |-> unwrap_or(b.max_entry_size, defaults.max_entry_size)]

(***************************************************************************)
(* A client of the builder: new(), then with_* calls in any order with any *)
(* size, then build(); the limits built go into a parser.                  *)
(*   outcomes  <<b>>, the builder the chain of calls has produced          *)
(*   script    the with_* calls made: [op, size]                           *)
(*   pc        "builder", "built" after build(), "panic" after a with_*    *)
(*             call whose assertion failed                                 *)
(*   p         after build(): a parser created with the limits built       *)
(***************************************************************************)
(* with_* calls made before build() *)
MaxCalls == 3

(* sizes passed to the with_* calls *)
LimitSizes == {0, 1, 2, 200}

InitLimits ==
    /\ p = parser_new(JournalExportLimits_default, 1)
    /\ pc = "builder"
    /\ input = <<>>
    /\ ahead = <<>>
    /\ script = <<>>
    /\ exhausted = FALSE
    /\ outcomes = <<builder_new>>

(* a with_* call `op` with `size` that yields the builder `after` *)
WithCall(op, size, after) ==
    /\ pc = "builder"
    /\ Len(script) < MaxCalls
    /\ script' = Append(script, [op |-> op, size |-> size])
    /\ IF with_ok(size)
       THEN outcomes' = <<after>> /\ pc' = "builder"
       ELSE outcomes' = outcomes /\ pc' = "panic"
    /\ UNCHANGED <<p, input, ahead, exhausted>>

WithValueSizeCall ==
    \E size \in LimitSizes :
        WithCall("max_field_value_size", size, with_max_field_value_size(outcomes[1], size))

WithNameLenCall ==
    \E size \in LimitSizes :
        WithCall("max_field_name_len", size, with_max_field_name_len(outcomes[1], size))

WithEntrySizeCall ==
    \E size \in LimitSizes :
        WithCall("max_entry_size", size, with_max_entry_size(outcomes[1], size))

BuildCall ==
    /\ pc = "builder"
    /\ pc' = "built"
    /\ p' = parser_new(build(outcomes[1]), 1)
    /\ UNCHANGED <<input, ahead, script, exhausted, outcomes>>

NextLimits == WithValueSizeCall \/ WithNameLenCall \/ WithEntrySizeCall \/ BuildCall

SpecLimits == InitLimits /\ [][NextLimits]_vars

(* the size of the last with_* call for the limit `op`, 0 if there was     *)
(* none                                                                    *)
LastSize(op) ==
    LET calls == {i \in 1..Len(script) : script[i].op = op}
    IN  IF calls = {} THEN 0
        ELSE script[CHOOSE i \in calls : \A j \in calls : j <= i].size

(* the limit a chain of calls is to produce: the size last passed, or d *)
Expected(op, d) == IF LastSize(op) = 0 THEN d ELSE LastSize(op)

(* C26: limits builder.  build() returns for each limit the size passed to *)
(* the last with_* call for that limit, and the default (field-name length *)
(* 128, field-value size 12288, entry size 16384) if there was none; a     *)
(* with_* call changes no other limit; a with_* call with size 0 panics,   *)
(* and only such a call does, so no limit built is 0.                      *)
C26_LimitsBuilder ==
    /\ pc = "built" =>
         /\ p.limits.max_field_value_size = Expected("max_field_value_size", 12288)
         /\ p.limits.max_field_name_len = Expected("max_field_name_len", 128)
         /\ p.limits.max_entry_size = Expected("max_entry_size", 16384)
         /\ p.limits.max_field_value_size > 0
         /\ p.limits.max_field_name_len > 0
         /\ p.limits.max_entry_size > 0
    /\ pc = "builder" =>
         /\ \A i \in 1..Len(script) : script[i].size > 0
         /\ build(outcomes[1]).max_field_value_size = Expected("max_field_value_size", 12288)
         /\ build(outcomes[1]).max_field_name_len = Expected("max_field_name_len", 128)
         /\ build(outcomes[1]).max_entry_size = Expected("max_entry_size", 16384)
    /\ pc = "panic" <=> (script # <<>> /\ script[Len(script)].size = 0)

(* limits were built after the name length was set twice and the entry     *)
(* size once: the value size is the default, the name length the size      *)
(* passed last                                                             *)
C26_Witness ==
    /\ pc = "built"
    /\ Len(script) = 3
    /\ script[1] = [op |-> "max_field_name_len", size |-> 200]
    /\ script[2] = [op |-> "max_entry_size", size |-> 1]
    /\ script[3] = [op |-> "max_field_name_len", size |-> 2]
    /\ p.limits = [max_field_value_size |-> 12288, max_field_name_len |-> 2,
                   max_entry_size |-> 1]

(***************************************************************************)
(* The reader over streams that begin with a binary field of any payload:  *)
(* the field "K", a declared length of 0..MaxPayload, as many payload      *)
(* bytes drawn from PayloadBytes, and one byte after the payload; then the *)
(* blank line, or another field and the blank line.  The source delivers   *)
(* the stream in chunks of any size and may end anywhere.                  *)
(*   script    <<f>>, the field the stream begins with:                    *)
(*             [name, value, typ, term], term the byte after the payload   *)
(*   ahead     the bytes the source still holds (at first: the stream)     *)
(***************************************************************************)
(* payload bytes of the binary field *)
MaxPayload == 2

PayloadBytes == {NL, EQ, 120}

BinLimits ==
    [max_field_value_size |-> MaxPayload, max_field_name_len |-> 1, max_entry_size |-> 16]

Payloads == UNION {[1..n -> PayloadBytes] : n \in 0..MaxPayload}

(* the wire form of a binary field whose payload is followed by `term` *)
EncodeBinary(name, payload, term) ==
    name \o <<NL>> \o le64(Len(payload)) \o payload \o <<term>>

(* what follows the first field: the blank line; a binary field of length  *)
(* 0 and the blank line; a text field and the blank line                   *)
BinRests ==
    { <<NL>>,
      EncodeBinary(<<75>>, <<>>, NL) \o <<NL>>,
      EncodeField(FieldPool[1]) \o <<NL>> }

InitBin ==
    \E c \in BufSizes, payload \in Payloads, term \in PayloadBytes, rest \in BinRests :
        /\ p = parser_new(BinLimits, c)
        /\ pc = "idle"
        /\ input = <<>>
        /\ ahead = EncodeBinary(<<75>>, payload, term) \o rest
        /\ script = <<[name |-> <<75>>, value |-> payload, typ |-> "Binary", term |-> term]>>
        /\ exhausted = FALSE
        /\ outcomes = <<>>

(* the source hands over k >= 1 of the bytes it holds *)
Deliver ==
    /\ pc = "read"
    /\ ~exhausted
    /\ \E k \in 1..Min(Len(ahead), free(p.buf)) :
         /\ LoopTurn(ReadInto(p, SubSeq(ahead, 1, k)))
         /\ input' = input \o SubSeq(ahead, 1, k)
         /\ ahead' = SubSeq(ahead, k + 1, Len(ahead))
    /\ UNCHANGED <<script, exhausted>>

NextBin == ParseNextCall \/ Deliver \/ ReadNone

SpecBin == InitBin /\ [][NextBin]_vars

(* the number of bytes of the first field, the byte after its payload      *)
(* included                                                                *)
FirstFieldLen == Len(EncodeBinary(script[1].name, script[1].value, script[1].term))

(* C27: binary payload is content-independent.  For a binary field with a  *)
(* declared length of 0, 1 or 2 and any payload bytes (newline and '='     *)
(* included): while the byte after the payload has not been delivered, no  *)
(* field is recorded and nothing but the end of the source is reported;    *)
(* once it has been delivered, if it is a newline the field is recorded as *)
(* Binary with exactly the payload as its value and the parser is at the   *)
(* start of the next field, and otherwise the call returns                 *)
(* UnexpectedCharacter of that byte and no field is recorded.              *)
C27_BinaryPayload ==
    LET f == script[1]
    IN  /\ Len(input) < FirstFieldLen =>
             /\ p.field_offsets = <<>>
             /\ \A i \in 1..Len(outcomes) :
                  \/ outcomes[i].kind = "Err" /\ outcomes[i].err = "UnexpectedEof"
                  \/ outcomes[i].kind = "Eof" /\ i > 1
        /\ (Len(input) >= FirstFieldLen /\ f.term = NL) =>
             /\ outcomes = <<>> =>
                  /\ p.field_offsets # <<>>
                  /\ p.field_offsets[1] = [start |-> 0, namelen |-> 1, typ |-> "Binary"]
             /\ Len(input) = FirstFieldLen =>
                  /\ p.cursor = FirstFieldLen
                  /\ p.parse_state \in {"FieldStart", "Eof"}
             /\ (outcomes # <<>> /\ ahead = <<>> /\ ~exhausted) => outcomes[1].kind = "Ok"
             /\ (outcomes # <<>> /\ outcomes[1].kind = "Ok") =>
                  /\ outcomes[1].fields[1] = [name |-> f.name, value |-> f.value, typ |-> "Binary"]
                  /\ outcomes[1].ofields[1] = outcomes[1].fields[1]
        /\ (Len(input) >= FirstFieldLen /\ f.term # NL) =>
             /\ pc = "idle"
             /\ outcomes # <<>>
             /\ outcomes[1] = Outcome(p, ResUnexpectedCharacter(f.term))
             /\ p.cursor = FirstFieldLen - 1

(* a binary field whose payload is a newline and a '=' was returned, in an *)
(* entry with a second binary field of declared length 0                   *)
C27_Witness ==
    /\ outcomes # <<>>
    /\ outcomes[1].kind = "Ok"
    /\ outcomes[1].fields =
         << [name |-> <<75>>, value |-> <<NL, EQ>>, typ |-> "Binary"],
            [name |-> <<75>>, value |-> <<>>, typ |-> "Binary"] >>


(* the last parse_next call returned an entry and no call was made since *)
EntryHeld ==
    /\ pc = "idle"
    /\ outcomes # <<>>
    /\ outcomes[Len(outcomes)].kind = "Ok"

(* in every state the recorded fields lie in the entry being assembled;    *)
(* while an entry is held, get_entry() still gives the fields the call     *)
(* returned, the first of them at the entry's first byte, all of them      *)
(* before the cursor, and they are the fields of that entry of the source  *)
ScopedToEntry ==
    /\ \A i \in 1..Len(p.field_offsets) : p.field_offsets[i].start >= p.entry_start
    /\ EntryHeld =>
         /\ p.field_offsets # <<>>
         /\ p.field_offsets[1].start = p.entry_start
         /\ \A i \in 1..Len(p.field_offsets) : p.field_offsets[i].start < p.cursor
         /\ iter(p) = outcomes[Len(outcomes)].fields
         /\ NoStray => iter(p) = FieldsOf(Groups(script)[Len(outcomes)])

(* a step that begins a parse_next call keeps no field recorded before it: *)
(* what is recorded afterwards starts at or after the cursor the call      *)
(* found; a step inside a call only adds to what is recorded               *)
DroppedOnRequest ==
    /\ pc = "idle" =>
         \A i \in 1..Len(p'.field_offsets) : p'.field_offsets[i].start >= p.cursor
    /\ pc = "read" =>
         /\ Len(p'.field_offsets) >= Len(p.field_offsets)
         /\ SubSeq(p'.field_offsets, 1, Len(p.field_offsets)) = p.field_offsets

(* C28: field list scoping.  Over any sequence of parse_next calls, the    *)
(* field list get_entry() exposes after a call returned an entry holds     *)
(* exactly the fields of that entry and none of an earlier one; the fields *)
(* of the previous entry stay until the caller requests the next entry and *)
(* are dropped by that request.                                            *)
C28_FieldListScoping == [](ScopedToEntry) /\ [][DroppedOnRequest]_vars

(* a second entry is held whose one field is not the field of the first    *)
(* entry: the first entry's field is gone from the list                    *)
C28_Witness ==
    /\ EntryHeld
    /\ Len(outcomes) = 2
    /\ outcomes[1].kind = "Ok"
    /\ Len(outcomes[1].fields) = 1
    /\ Len(p.field_offsets) = 1
    /\ p.entry_start > 0
    /\ iter(p) # outcomes[1].fields


(* the value length of a recorded field, read off the bytes delivered: the *)
(* bytes after '=' up to the next newline for a text field, the length the *)
(* 8 bytes after the name's newline declare for a binary field             *)
RecordedValueLen(f) ==
    IF f.typ = "String"
    THEN ValueRun(input, f.start + f.namelen + 1)
    ELSE from_le_bytes(SubSeq(input, f.start + f.namelen + 2, f.start + f.namelen + 9))

(* C29: field-bounds invariant.  In every reachable state every recorded   *)
(* field descriptor has a name of at least 1 and at most                   *)
(* max_field_name_len bytes (the name bytes of the input, followed by '='  *)
(* for a text and newline for a binary field) and a value (text length or  *)
(* declared binary length) of at most max_field_value_size bytes, and the  *)
(* descriptors are in strictly increasing order of start.                  *)
C29_FieldBounds ==
    /\ \A i \in 1..Len(p.field_offsets) :
         LET f == p.field_offsets[i]
         IN  /\ 1 <= f.namelen
             /\ f.namelen <= p.limits.max_field_name_len
             /\ f.start + f.namelen + 1 <= Len(input)
             /\ NameRun(input, f.start) = f.namelen
             /\ input[f.start + f.namelen + 1] = (IF f.typ = "String" THEN EQ ELSE NL)
             /\ RecordedValueLen(f) <= p.limits.max_field_value_size
             /\ f.start + f.namelen + 1 + RecordedValueLen(f)
                  + (IF f.typ = "Binary" THEN 8 ELSE 0) < p.cursor
    /\ \A i \in 1..Len(p.field_offsets) : \A j \in 1..Len(p.field_offsets) :
         i < j => p.field_offsets[i].start < p.field_offsets[j].start

(* three fields are recorded in one entry: a text field whose value has    *)
(* max_field_value_size bytes, a field whose name has max_field_name_len   *)
(* bytes, and a binary field declaring max_field_value_size bytes          *)
C29_Witness ==
    /\ Len(p.field_offsets) = 3
    /\ \E i \in 1..3 :
         /\ p.field_offsets[i].typ = "String"
         /\ RecordedValueLen(p.field_offsets[i]) = p.limits.max_field_value_size
    /\ \E i \in 1..3 : p.field_offsets[i].namelen = p.limits.max_field_name_len
    /\ \E i \in 1..3 :
         /\ p.field_offsets[i].typ = "Binary"
         /\ RecordedValueLen(p.field_offsets[i]) = p.limits.max_field_value_size


(* the positions one run of parse() on q reads are inside the window: the  *)
(* byte at the cursor of every iteration that gets past the end-of-window  *)
(* test (journald.rs:107), and the range len_stop - 8 .. len_stop of the   *)
(* iteration that decodes a binary length (journald.rs:173)                *)
RECURSIVE ReadsInWindow(_)
ReadsInWindow(q) ==
    IF q.cursor = q.buf.upper THEN TRUE
    ELSE /\ q.buf.lower <= q.cursor
         /\ q.cursor < q.buf.upper
         /\ q.parse_state = "BinaryValueLen" =>
              LET len_stop == q.field_start + q.namelen + 9
                  at == Min(q.buf.upper, len_stop)
              IN  ~(at < len_stop \/ at = q.buf.upper) =>
                    /\ q.buf.lower <= len_stop - 8
                    /\ len_stop - 1 < q.buf.upper
         /\ LET it == ParseIter(q)
            IN  it.ret.kind = "Continue" => ReadsInWindow(it.p)

(* the parser a step calls parse() on: after clear_entry() when the step   *)
(* begins a parse_next call, after the bytes the step delivered were       *)
(* written and the window extended otherwise                               *)
ParseCalledOn ==
    IF pc = "idle" THEN clear_entry(p)
    ELSE ReadInto(p, SubSeq(input', Len(input) + 1, Len(input')))

WindowOrder ==
    /\ p.buf.lower <= p.field_start
    /\ p.field_start <= p.cursor
    /\ p.cursor <= p.buf.upper
    /\ p.buf.upper - p.buf.offset <= Len(p.buf.buf)

ParseStaysInWindow ==
    /\ p' = parse(ParseCalledOn).p
    /\ p'.cursor >= p.cursor
    /\ ReadsInWindow(ParseCalledOn)

(* C30: the parser never reads unfilled or discarded bytes.  In every      *)
(* reachable state lower <= field_start <= cursor <= upper (and the window *)
(* ends inside the store); from one return of parse() to the next the      *)
(* cursor does not move backward; and every run of parse() reads the byte  *)
(* at the cursor and the 8 length bytes of a binary field only at          *)
(* positions from lower up to, not including, upper.                       *)
C30_ReadsInsideWindow == [](WindowOrder) /\ [][ParseStaysInWindow]_vars

(* by a reader whose buffer started with capacity 1, a binary field that   *)
(* does not start the stream was recorded (its 8 length bytes were         *)
(* decoded), and parse() stopped at the end of the window, the cursor past *)
(* the start of a further field                                            *)
C30_Witness ==
    /\ pc = "read"
    /\ InitialCapacity = 1
    /\ \E i \in 1..Len(p.field_offsets) :
         p.field_offsets[i].typ = "Binary" /\ p.field_offsets[i].start > 0
    /\ p.cursor = p.buf.upper
    /\ p.field_start < p.cursor
    /\ p.parse_state = "Fieldname"


(***************************************************************************)
(* The reader over a source whose read can fail.  Inside parse_next the    *)
(* Underfilled arm is `let n = self.buf_read.read(b)?;` (`.await?` in the  *)
(* async reader): an I/O error leaves parse_next with Err(IoError) before  *)
(* extend is called, and an async parse_next dropped while it waits leaves *)
(* it with no result at all.  In both cases the parser is as parse() left  *)
(* it when it returned Underfilled.                                        *)
(*   ahead    the bytes the source still holds; script the items they      *)
(*            encode; the other variables are as for the reader above      *)
(***************************************************************************)
(* fills that may be left uncompleted in one run *)
MaxFailures == 2

(* what the source holds: valid entries of the fields A=x and K *)
IOScripts == { <<1, Blank>>, <<1, 3, Blank>>, <<3, Blank, 1, Blank>> }

ResIoError == ResErr("IoError")

(* the caller's record of a parse_next future dropped before it returned *)
ResDropped == Res("Dropped", "None", 0)

IsUncompleted(o) == o.err = "IoError" \/ o.kind = "Dropped"

NUncompleted == Cardinality({i \in 1..Len(outcomes) : IsUncompleted(outcomes[i])})

InitIO ==
    \E l \in LimitsSet, b \in BufSizes, sc \in IOScripts :
        /\ p = parser_new(l, b)
        /\ pc = "idle"
        /\ input = <<>>
        /\ ahead = Concat([i \in 1..Len(sc) |-> ItemBytes(sc[i])])
        /\ script = sc
        /\ exhausted = FALSE
        /\ outcomes = <<>>

(* parse_next leaves its loop without extend: the parser is untouched *)
Uncompleted(r) ==
    /\ pc = "read"
    /\ NUncompleted < MaxFailures
    /\ pc' = "idle"
    /\ outcomes' = Append(outcomes, Outcome(p, r))
    /\ UNCHANGED <<p, input, ahead, script, exhausted>>

(* buf_read.read(b)? fails: parse_next returns Err(IoError) *)
ReadFails == Uncompleted(ResIoError)

(* the async parse_next is dropped while buf_read.read(b).await is pending *)
Abandon == Uncompleted(ResDropped)

NextIO == ParseNextCall \/ Deliver \/ ReadNone \/ ReadFails \/ Abandon

SpecIO == InitIO /\ [][NextIO]_vars

ReportsEnd(o) == o.kind = "Eof" \/ o.err = "UnexpectedEof"

(* C31: end of input is reported only on source exhaustion.  Whenever a    *)
(* parse_next call has returned the clean end or UnexpectedEof, the source *)
(* has answered a request for bytes with 0 bytes (extend(0)); so a call    *)
(* made after a fill that was not completed (I/O error, or async call      *)
(* dropped) does not report either of them while the source still holds    *)
(* bytes.                                                                  *)
C31_EndOnlyOnExhaustion_Claimed ==
    \A i \in 1..Len(outcomes) : ReportsEnd(outcomes[i]) => exhausted


(* the buffer is one on which make_room takes the shift branch: a          *)
(* discarded prefix before the window, the window ending at the end of the *)
(* store                                                                   *)
ShiftBranch(sb) ==
    /\ sb.offset < sb.lower
    /\ sb.lower <= sb.upper
    /\ sb.upper = sb.offset + Len(sb.buf)

(* C32: shift stays inside the backing store.  A shift() or make_room()    *)
(* call made on a buffer with offset < lower <= upper and                  *)
(* upper = offset + capacity returns without indexing outside the store,   *)
(* whatever the lengths of the window and of the discarded prefix.         *)
C32_ShiftInsideStore_Claimed ==
    ( /\ outcomes # <<>>
      /\ outcomes[1].op \in {"shift", "make_room"}
      /\ ShiftBranch(outcomes[1].before) ) =>
        ~outcomes[1].panicked


(***************************************************************************)
(* The reader driven to completion: the source holds a finite content      *)
(* fixed at the start (any items, stray bytes included), hands it over in  *)
(* non-empty chunks and may report its exhaustion at any point.  A read    *)
(* inside parse_next returns, which is the fairness of SpecLive; the       *)
(* caller is free never to call parse_next again.                          *)
(***************************************************************************)
(* items the source holds *)
MaxLiveItems == 3

(* the items the content is made of: the text field A=x, the binary field  *)
(* K, the blank line and the stray byte 'A'                                *)
LiveItems == {1, 3, Blank, Blank + 2}

LiveScripts == UNION {[1..n -> LiveItems] : n \in 0..MaxLiveItems}

(* the limits with the shortest name allowed: with the stray 'A' before a  *)
(* field, names within and over the limit both occur                       *)
LiveLimits == CHOOSE l \in LimitsSet : l.max_field_name_len = 1

InitLive ==
    \E l \in {LiveLimits}, b \in BufSizes, sc \in LiveScripts :
        /\ p = parser_new(l, b)
        /\ pc = "idle"
        /\ input = <<>>
        /\ ahead = Concat([i \in 1..Len(sc) |-> ItemBytes(sc[i])])
        /\ script = sc
        /\ exhausted = FALSE
        /\ outcomes = <<>>

NextLive == ParseNextCall \/ Deliver \/ ReadNone

SpecLive == InitLive /\ [][NextLive]_vars /\ WF_vars(ReadNone)

(* the iterations one run of parse() on q makes before it returns *)
RECURSIVE NIterations(_)
NIterations(q) ==
    LET it == ParseIter(q)
    IN  IF it.ret.kind = "Continue" THEN 1 + NIterations(it.p) ELSE 1

(* an iteration on q returns or advances the cursor *)
ReturnsOrAdvances(q) ==
    LET it == ParseIter(q)
    IN  it.ret.kind # "Continue" \/ it.p.cursor > q.cursor

(* every iteration of one run of parse() on q returns, advances the        *)
(* cursor, or changes the state so that the next one returns or advances   *)
RECURSIVE IterationsProgress(_)
IterationsProgress(q) ==
    LET it == ParseIter(q)
    IN  it.ret.kind = "Continue" =>
          /\ \/ it.p.cursor > q.cursor
             \/ it.p.parse_state # q.parse_state /\ ReturnsOrAdvances(it.p)
          /\ IterationsProgress(it.p)

(* the run of parse() a step makes progresses at every iteration and ends  *)
(* within two iterations per byte of the window beyond the cursor, and one *)
ParseTerminates ==
    /\ IterationsProgress(ParseCalledOn)
    /\ NIterations(ParseCalledOn)
         <= 2 * (ParseCalledOn.buf.upper - ParseCalledOn.cursor) + 1

(* C33: progress and termination.  Every parse() call returns after        *)
(* finitely many iterations, each of which returns, advances the cursor or *)
(* changes the state so that the next one returns or advances; and for a   *)
(* finite input delivered in non-empty chunks and followed by exhaustion,  *)
(* every parse_next call that waits for bytes eventually returns.          *)
C33_Termination == [][ParseTerminates]_vars /\ ((pc = "read") ~> (pc = "idle"))

(* a reader whose buffer started with capacity 1 asked for bytes again and *)
(* again, was cut off by the end of the source inside the length of a      *)
(* binary field, and returned UnexpectedEof                                *)
C33_Witness ==
    /\ pc = "idle"
    /\ exhausted
    /\ InitialCapacity = 1
    /\ Len(input) >= 5
    /\ p.parse_state = "BinaryValueLen"
    /\ outcomes # <<>>
    /\ outcomes[Len(outcomes)].err = "UnexpectedEof"

====
